---- MODULE Spec2Model ----
(***************************************************************************)
(* The request handler of the crawler in src/src/main.ts (lines 58-197):   *)
(* link enqueuing, the choice among pass-through / skip / truncate /       *)
(* split, the model calls it launches, the join on their promises and the  *)
(* record it pushes to the dataset.                                        *)
(*                                                                         *)
(* Texts are sequences of tokens.  A page content of n tokens is the       *)
(* sequence <<1, ..., n>>, so that every prefix and every chunk of it is   *)
(* recognisable.  Token budgets are JavaScript numbers in the source       *)
(* (maxTokens * 0.9 is not rounded); here they are integers counting       *)
(* TENTHS of a token, which represents k * 0.9 - i exactly; the double     *)
(* the source computes has the same sign, the same whole part and is whole *)
(* in the same cases.                                                      *)
(*                                                                         *)
(* One handler execution per request is modelled; the crawler's own retry  *)
(* of a failed request is outside the handler.                             *)
(***************************************************************************)
EXTENDS Integers, Sequences, FiniteSets, TLC

\* ---------------------------------------------------------------- bounds
MaxTokens == 4        \* modelConfig.maxTokens ranges over 1..MaxTokens
MaxInstr == 2         \* input.instructions has 0..MaxInstr tokens
MaxContent == 8       \* a page content has 0..MaxContent tokens
MaxChunks == 3        \* pages that split into more chunks are not explored
MaxAnswer == 1        \* a model answer has 0..MaxAnswer tokens
MaxRequests == 2      \* request slots of the crawl
MaxLinks == 1         \* links one page can enqueue
MaxDepthCfg == 1      \* input.maxCrawlingDepth ranges over 0..MaxDepthCfg

Requests == 1..MaxRequests

\* input.longContentConfig: the three supported values, unset, and a string
\* outside the enumeration.
Policies == {"skip", "truncate", "split", "unset", "other"}

VARIABLES
    input,            \* the actor input (main.ts:33)
    modelConfig,      \* validateGPTModel(...) (main.ts:38)
    pc,               \* per request: position of its handler execution
    depth,            \* per request: request.userData.depth
    linksFound,       \* per request: links on its page that match the selector
    enqueued,         \* per request: the requests its handler enqueued
    pageContent,      \* per request: handler local pageContent
    strategy,         \* per request: the branch of lines 105-179 taken
    contentMaxTokens, \* per request: handler local, in tenths of a token
    promises,         \* per request: the model calls launched, in launch order
    arrival,          \* per request: indices of promises in settling order
    answer,           \* per request: handler local answer
    openaiUsage,      \* per request: total of the OpenaiAPIUsage object
    error,            \* per request: what the handler threw
    dataset           \* records pushed with Dataset.pushData, in push order

vars == <<input, modelConfig, pc, depth, linksFound, enqueued, pageContent, strategy,
          contentMaxTokens, promises, arrival, answer, openaiUsage, error,
          dataset>>

\* ------------------------------------------------------- text primitives
\* A text of n tokens: <<1, ..., n>>.
Text(n) == [k \in 1..n |-> k]

\* n copies of the instruction token.
Instructions(n) == [k \in 1..n |-> 0]

\* An answer of n tokens.
AnswerText(n) == [k \in 1..n |-> "a"]

getNumberOfTextTokens(text) == Len(text)

Min(a, b) == IF a < b THEN a ELSE b
Max(a, b) == IF a > b THEN a ELSE b

\* Whole tokens in a budget given in tenths (floor, also below zero).
WholeTokens(budget10) == budget10 \div 10

\* Chunker.truncate: the longest prefix of text that fits the budget; the
\* empty prefix when nothing fits.
shortsTextByTokenLength(text, maxTokenLength10) ==
    SubSeq(text, 1, Min(Len(text), Max(0, WholeTokens(maxTokenLength10))))

\* Chunker.split: consecutive pieces of the largest size that fits the
\* budget, the last one possibly shorter.  A split never falls inside a
\* token, so a piece holds at least one token whatever the budget.
RECURSIVE ChunksOfSize(_, _)
ChunksOfSize(text, size) ==
    IF Len(text) = 0 THEN <<>>
    ELSE IF Len(text) <= size THEN <<text>>
    ELSE <<SubSeq(text, 1, size)>>
         \o ChunksOfSize(SubSeq(text, size + 1, Len(text)), size)

chunkTextByTokenLenght(text, maxTokenLength10) ==
    ChunksOfSize(text, Max(1, WholeTokens(maxTokenLength10)))

\* --------------------------------------------------- pieces of the handler
\* main.ts:62
isDepthLimitReached(maxCrawlingDepth, d) ==
    maxCrawlingDepth # 0 /\ d < maxCrawlingDepth

\* main.ts:63
ShouldEnqueueLinks(inp, d) ==
    inp.linkSelector /\ inp.globs /\ ~isDepthLimitReached(inp.maxCrawlingDepth, d)

\* Variant of IsTooLong: the boundary counted as too long.
IsTooLong_Inclusive(contentTokenLength, maxTokens) ==
    contentTokenLength >= maxTokens

\* main.ts:105
IsTooLong(contentTokenLength, maxTokens) == contentTokenLength > maxTokens

\* Variant of Strategy: the skip policy falls through to truncation.
Strategy_SkipTruncates(contentTokenLength, maxTokens, longContentConfig) ==
    IF IsTooLong(contentTokenLength, maxTokens)
    THEN IF longContentConfig \in {"skip", "truncate"} THEN "truncate"
         ELSE IF longContentConfig = "split" THEN "split"
         ELSE "unsupported"
    ELSE "passThrough"

\* Variant of Strategy: the skip policy is rejected like an unknown one.
Strategy_SkipThrows(contentTokenLength, maxTokens, longContentConfig) ==
    IF IsTooLong(contentTokenLength, maxTokens)
    THEN IF longContentConfig = "truncate" THEN "truncate"
         ELSE IF longContentConfig = "split" THEN "split"
         ELSE "unsupported"
    ELSE "passThrough"

\* Variant of Strategy: an unknown policy is skipped silently.
Strategy_UnknownSkips(contentTokenLength, maxTokens, longContentConfig) ==
    IF IsTooLong(contentTokenLength, maxTokens)
    THEN IF longContentConfig = "truncate" THEN "truncate"
         ELSE IF longContentConfig = "split" THEN "split"
         ELSE "skip"
    ELSE "passThrough"

\* main.ts:105-165, the branch taken
Strategy(contentTokenLength, maxTokens, longContentConfig) ==
    IF IsTooLong(contentTokenLength, maxTokens)
    THEN IF longContentConfig = "skip" THEN "skip"
         ELSE IF longContentConfig = "truncate" THEN "truncate"
         ELSE IF longContentConfig = "split" THEN "split"
         ELSE "unsupported"
    ELSE "passThrough"

\* Variant of ComputeContentMaxTokens: the product rounded down to whole
\* tokens before the subtraction.
ComputeContentMaxTokens_Floored(maxTokens, instructionTokenLength) ==
    10 * (((maxTokens * 9) \div 10) - instructionTokenLength)

\* main.ts:113 and 133: (modelConfig.maxTokens * 0.9) - instructionTokenLength,
\* in tenths of a token.
ComputeContentMaxTokens(maxTokens, instructionTokenLength) ==
    (maxTokens * 9) - (10 * instructionTokenLength)

\* Variant of PromptContents: the truncate branch sends the page content.
PromptContents_TruncateSendsAll(strat, content, budget10) ==
    IF strat \in {"passThrough", "truncate"} THEN <<content>>
    ELSE IF strat = "split" THEN chunkTextByTokenLenght(content, budget10)
    ELSE <<>>

\* The contents placed in the prompts, one per model call, in launch order
\* (main.ts:114+120, 134+140-141, 167).
PromptContents(strat, content, budget10) ==
    IF strat = "passThrough" THEN <<content>>
    ELSE IF strat = "truncate" THEN <<shortsTextByTokenLength(content, budget10)>>
    ELSE IF strat = "split" THEN chunkTextByTokenLenght(content, budget10)
    ELSE <<>>

\* main.ts:120, 141, 167: `${input.instructions}```${content}```` .  The
\* fences delimit the two parts, so the prompt is kept as the pair.
Prompt(instructions, content) ==
    [instructions |-> instructions, content |-> content]

\* Tokens of a prompt: both parts and the two fences.
PromptTokens(prompt) ==
    getNumberOfTextTokens(prompt.instructions)
    + getNumberOfTextTokens(prompt.content) + 2

\* processInstructions({ prompt, openai, modelConfig }): a pending call.
processInstructions(prompt) ==
    [prompt |-> prompt, state |-> "pending", answer |-> <<>>, usage |-> 0]

\* Variant of LaunchAll: only the first call is launched before waiting.
LaunchAll_OneAtATime(instructions, parts) ==
    [k \in 1..Min(1, Len(parts)) |->
       processInstructions(Prompt(instructions, parts[k]))]

\* main.ts:139-152 (and 120+126, 167+173): one call per content, all
\* launched before the handler waits on any of them.
LaunchAll(instructions, parts) ==
    [k \in 1..Len(parts) |->
       processInstructions(Prompt(instructions, parts[k]))]

\* The usage the model client reports for a call: prompt tokens plus
\* completion tokens.
CallUsage(prompt, ans) == PromptTokens(prompt) + getNumberOfTextTokens(ans)

\* Variant of PromiseAll: waits for every call and ignores rejections.
PromiseAll_AllSettled(ps) ==
    IF \A k \in 1..Len(ps) : ps[k].state # "pending" THEN "fulfilled"
    ELSE "pending"

\* Variant of PromiseAll: a rejection is reported only once every call has
\* settled.
PromiseAll_WaitsForAll(ps) ==
    IF \E k \in 1..Len(ps) : ps[k].state = "pending" THEN "pending"
    ELSE IF \E k \in 1..Len(ps) : ps[k].state = "rejected" THEN "rejected"
    ELSE "fulfilled"

\* Variant of PromiseAll: a rejection is swallowed and the join never settles.
PromiseAll_NeverRejects(ps) ==
    IF \A k \in 1..Len(ps) : ps[k].state = "fulfilled" THEN "fulfilled"
    ELSE "pending"

\* main.ts:154 (and the single awaits of 126 and 173): Promise.all over the
\* launched calls rejects as soon as one rejects and fulfils when all have
\* fulfilled.
PromiseAll(ps) ==
    IF \E k \in 1..Len(ps) : ps[k].state = "rejected" THEN "rejected"
    ELSE IF \A k \in 1..Len(ps) : ps[k].state = "fulfilled" THEN "fulfilled"
    ELSE "pending"

\* Variant of MergeAnswers: the answers joined last chunk first.
RECURSIVE MergeAnswers_Reversed(_)
MergeAnswers_Reversed(results) ==
    IF Len(results) = 0 THEN <<>>
    ELSE IF Len(results) = 1 THEN results[1].answer
    ELSE MergeAnswers_Reversed(Tail(results)) \o <<"\n">> \o results[1].answer

\* main.ts:155 (and 127, 174): results.map((r) => r.answer).join('\n'),
\* results being in the order of the promises.
RECURSIVE MergeAnswers(_)
MergeAnswers(results) ==
    IF Len(results) = 0 THEN <<>>
    ELSE IF Len(results) = 1 THEN results[1].answer
    ELSE results[1].answer \o <<"\n">> \o MergeAnswers(Tail(results))

\* OpenaiAPIUsage.logApiCallUsage: adds a call's usage to the running total.
logApiCallUsage(total, usage) == total + usage

\* Variant of TotalTokenUsage: only the last result is logged.
TotalTokenUsage_LastOnly(results) ==
    IF Len(results) = 0 THEN 0
    ELSE logApiCallUsage(0, results[Len(results)].usage)

\* Variant of TotalTokenUsage: every result is logged twice.
RECURSIVE TotalTokenUsage_Twice(_)
TotalTokenUsage_Twice(results) ==
    IF Len(results) = 0 THEN 0
    ELSE logApiCallUsage(
             logApiCallUsage(
                 TotalTokenUsage_Twice(SubSeq(results, 1, Len(results) - 1)),
                 results[Len(results)].usage),
             results[Len(results)].usage)

\* main.ts:104, 156-158 (and 128, 175) with line 190: a fresh usage object,
\* logApiCallUsage on every result in turn, then getTotalTokenUsage().
RECURSIVE TotalTokenUsage(_)
TotalTokenUsage(results) ==
    IF Len(results) = 0 THEN 0
    ELSE logApiCallUsage(TotalTokenUsage(SubSeq(results, 1, Len(results) - 1)),
                         results[Len(results)].usage)

\* Variant of RecordContent: the record carries what the first prompt held.
RecordContent_Sent(content, ps) ==
    IF Len(ps) = 0 THEN <<>> ELSE ps[1].prompt.content

\* main.ts:195: the content field of the record.
RecordContent(content, ps) == content

\* The totals of the usage objects of requests q..MaxRequests other than r.
RECURSIVE UsageOfOthers(_, _)
UsageOfOthers(r, q) ==
    IF q > MaxRequests THEN 0
    ELSE (IF q = r THEN 0 ELSE openaiUsage[q]) + UsageOfOthers(r, q + 1)

\* Variant of Record: one usage object shared by all handler executions.
Record_SharedUsage(r, content, ps) ==
    [url |-> r,
     contentTokenLength |-> getNumberOfTextTokens(content),
     instructionTokenLength |-> getNumberOfTextTokens(input.instructions),
     answerTokenLength |-> getNumberOfTextTokens(MergeAnswers(ps)),
     totalTokenLength |-> UsageOfOthers(r, 1) + TotalTokenUsage(ps),
     answer |-> MergeAnswers(ps),
     content |-> RecordContent(content, ps)]

\* main.ts:184-196 (the fields this model carries)
Record(r, content, ps) ==
    [url |-> r,
     contentTokenLength |-> getNumberOfTextTokens(content),
     instructionTokenLength |-> getNumberOfTextTokens(input.instructions),
     answerTokenLength |-> getNumberOfTextTokens(MergeAnswers(ps)),
     totalTokenLength |-> TotalTokenUsage(ps),
     answer |-> MergeAnswers(ps),
     content |-> RecordContent(content, ps)]

\* ------------------------------------------------------------------ Init
InitRequests(nStart) ==
    /\ pc = [r \in Requests |-> IF r <= nStart THEN "queued" ELSE "none"]
    /\ depth = [r \in Requests |-> 0]
    /\ linksFound = [r \in Requests |-> 0]
    /\ enqueued = [r \in Requests |-> {}]
    /\ pageContent = [r \in Requests |-> <<>>]
    /\ strategy = [r \in Requests |-> "none"]
    /\ contentMaxTokens = [r \in Requests |-> 0]
    /\ promises = [r \in Requests |-> <<>>]
    /\ arrival = [r \in Requests |-> <<>>]
    /\ answer = [r \in Requests |-> <<>>]
    /\ openaiUsage = [r \in Requests |-> 0]
    /\ error = [r \in Requests |-> "none"]
    /\ dataset = <<>>

InitConfig(linkFollowing, depths) ==
    /\ modelConfig \in [maxTokens : 1..MaxTokens]
    /\ input \in [instructions : {Instructions(n) : n \in 0..MaxInstr},
                  longContentConfig : Policies,
                  linkSelector : linkFollowing,
                  globs : linkFollowing,
                  maxCrawlingDepth : depths]

\* One start URL, no link following: one page's handler execution.
Init ==
    /\ InitConfig({FALSE}, {0})
    /\ InitRequests(1)

\* One start URL with link following configured, one model context size,
\* empty instructions and the single-call policies: a crawl in which the
\* handlers of several pages run interleaved.
InitCrawl ==
    /\ InitConfig({TRUE}, 0..MaxDepthCfg)
    /\ modelConfig.maxTokens = MaxTokens
    /\ input.instructions = Instructions(0)
    /\ input.longContentConfig \in {"truncate", "skip"}
    /\ InitRequests(1)

\* --------------------------------------------------------------- actions
\* The handler from the point where Promise.all (or the single await) has an
\* outcome: lines 155-158 and 181-196 when fulfilled, 159-161 (130, 177) when
\* rejected.  ps is the new value of promises[r], pcq the positions of the
\* requests before this step of r.
Resume(r, content, ps, pcq) ==
    /\ promises' = [promises EXCEPT ![r] = ps]
    /\ CASE PromiseAll(ps) = "fulfilled" ->
              /\ answer' = [answer EXCEPT ![r] = MergeAnswers(ps)]
              /\ openaiUsage' = [openaiUsage EXCEPT ![r] = TotalTokenUsage(ps)]
              /\ dataset' = Append(dataset, Record(r, content, ps))
              /\ pc' = [pcq EXCEPT ![r] = "pushed"]
              /\ error' = error
         [] PromiseAll(ps) = "rejected" ->
              /\ pc' = [pcq EXCEPT ![r] = "failed"]
              /\ error' = [error EXCEPT ![r] = "openai"]
              /\ UNCHANGED <<answer, openaiUsage, dataset>>
         [] OTHER ->
              /\ pc' = [pcq EXCEPT ![r] = "awaiting"]
              /\ UNCHANGED <<answer, openaiUsage, dataset, error>>

\* The first k free request slots.
FreeSlots == {q \in Requests : pc[q] = "none"}
FirstFree(k) == {q \in FreeSlots : Cardinality({f \in FreeSlots : f < q}) < k}

\* main.ts:58-179 up to the suspension on the model calls: enqueue links,
\* extract the content, choose the branch, launch the calls.
Open(r) ==
    /\ pc[r] = "queued"
    /\ \E n \in 0..MaxContent, links \in 0..MaxLinks :
         LET content == Text(n)
             contentTokenLength == getNumberOfTextTokens(content)
             instructionTokenLength == getNumberOfTextTokens(input.instructions)
             strat == Strategy(contentTokenLength, modelConfig.maxTokens,
                               input.longContentConfig)
             budget10 == ComputeContentMaxTokens(modelConfig.maxTokens,
                                                 instructionTokenLength)
             parts == PromptContents(strat, content, budget10)
             ps == LaunchAll(input.instructions, parts)
             enq == IF ShouldEnqueueLinks(input, depth[r])
                    THEN FirstFree(links) ELSE {}
             pcq == [q \in Requests |-> IF q \in enq THEN "queued" ELSE pc[q]]
         IN  /\ Len(parts) <= MaxChunks
             /\ (input.linkSelector /\ input.globs) \/ links = 0
             /\ depth' = [q \in Requests |->
                            IF q \in enq THEN depth[r] + 1 ELSE depth[q]]
             /\ linksFound' = [linksFound EXCEPT ![r] = links]
             /\ enqueued' = [enqueued EXCEPT ![r] = enq]
             /\ pageContent' = [pageContent EXCEPT ![r] = content]
             /\ strategy' = [strategy EXCEPT ![r] = strat]
             /\ contentMaxTokens' =
                  [contentMaxTokens EXCEPT
                     ![r] = IF strat \in {"truncate", "split"}
                            THEN budget10 ELSE 0]
             /\ arrival' = arrival
             /\ CASE strat = "skip" ->
                       /\ pc' = [pcq EXCEPT ![r] = "skipped"]
                       /\ UNCHANGED <<promises, answer, openaiUsage, error, dataset>>
                  [] strat = "unsupported" ->
                       /\ pc' = [pcq EXCEPT ![r] = "failed"]
                       /\ error' = [error EXCEPT ![r] = "config"]
                       /\ UNCHANGED <<promises, answer, openaiUsage, dataset>>
                  [] OTHER -> Resume(r, content, ps, pcq)
    /\ UNCHANGED <<input, modelConfig>>

\* Model call k of request r succeeds with an answer of n tokens; the handler
\* resumes if this settles its await.
Fulfil(r, k, n) ==
    /\ k \in 1..Len(promises[r])
    /\ promises[r][k].state = "pending"
    /\ LET ans == AnswerText(n)
           ps == [promises[r] EXCEPT
                    ![k] = [prompt |-> @.prompt,
                            state |-> "fulfilled",
                            answer |-> ans,
                            usage |-> CallUsage(@.prompt, ans)]]
       IN  /\ arrival' = [arrival EXCEPT ![r] = Append(@, k)]
           /\ IF pc[r] = "awaiting"
              THEN Resume(r, pageContent[r], ps, pc)
              ELSE /\ promises' = [promises EXCEPT ![r] = ps]
                   /\ UNCHANGED <<pc, answer, openaiUsage, error, dataset>>
    /\ UNCHANGED <<input, modelConfig, depth, linksFound, enqueued, pageContent,
                   strategy, contentMaxTokens>>

\* Variant of Reject: the failed call is issued again.
Reject_Retries(r, k) ==
    /\ k \in 1..Len(promises[r])
    /\ promises[r][k].state = "pending"
    /\ promises' = [promises EXCEPT
                      ![r] = Append([@ EXCEPT ![k] = [@ EXCEPT !.state = "rejected"]],
                                    processInstructions(promises[r][k].prompt))]
    /\ arrival' = [arrival EXCEPT ![r] = Append(@, k)]
    /\ UNCHANGED <<input, modelConfig, pc, depth, linksFound, enqueued,
                   pageContent, strategy, contentMaxTokens, answer, openaiUsage,
                   error, dataset>>

\* Model call k of request r fails; the handler resumes in its catch block if
\* it is still awaiting.
Reject(r, k) ==
    /\ k \in 1..Len(promises[r])
    /\ promises[r][k].state = "pending"
    /\ LET ps == [promises[r] EXCEPT ![k] = [@ EXCEPT !.state = "rejected"]]
       IN  /\ arrival' = [arrival EXCEPT ![r] = Append(@, k)]
           /\ IF pc[r] = "awaiting"
              THEN Resume(r, pageContent[r], ps, pc)
              ELSE /\ promises' = [promises EXCEPT ![r] = ps]
                   /\ UNCHANGED <<pc, answer, openaiUsage, error, dataset>>
    /\ UNCHANGED <<input, modelConfig, depth, linksFound, enqueued, pageContent,
                   strategy, contentMaxTokens>>

Next ==
    \/ \E r \in Requests : Open(r)
    \/ \E r \in Requests, k \in 1..MaxChunks, n \in 0..MaxAnswer : Fulfil(r, k, n)
    \/ \E r \in Requests, k \in 1..MaxChunks : Reject(r, k)

Spec == Init /\ [][Next]_vars

\* The crawler runs the handler of every queued request and every launched
\* model call eventually succeeds or fails.
FairSpec == Init /\ [][Next]_vars /\ WF_vars(Next)

SpecCrawl == InitCrawl /\ [][Next]_vars

\* ================================================================ claims
\* The handler of r has run its first step.
Started(r) == pc[r] \notin {"none", "queued"}

\* Indices of the records pushed for request r.
RecordsOf(r) == {i \in 1..Len(dataset) : dataset[i].url = r}

\* The page of r is longer than the model's context.
Oversized(r) ==
    Started(r) /\ Len(pageContent[r]) > modelConfig.maxTokens

OnTruncate(r) == Oversized(r) /\ input.longContentConfig = "truncate"
OnSplit(r) == Oversized(r) /\ input.longContentConfig = "split"

\* Every launched call of r has fulfilled.
AllFulfilled(r) ==
    \A k \in 1..Len(promises[r]) : promises[r][k].state = "fulfilled"

\* The answers of calls k..N of r joined with newlines, by call position.
RECURSIVE JoinFrom(_, _)
JoinFrom(r, k) ==
    IF k > Len(promises[r]) THEN <<>>
    ELSE promises[r][k].answer
         \o (IF k < Len(promises[r]) THEN <<"\n">> ELSE <<>>)
         \o JoinFrom(r, k + 1)

\* The usages of calls k..N of r added up.
RECURSIVE UsageFrom(_, _)
UsageFrom(r, k) ==
    IF k > Len(promises[r]) THEN 0
    ELSE promises[r][k].usage + UsageFrom(r, k + 1)

\* The prompt contents of calls k..N of r concatenated.
RECURSIVE SentFrom(_, _)
SentFrom(r, k) ==
    IF k > Len(promises[r]) THEN <<>>
    ELSE promises[r][k].prompt.content \o SentFrom(r, k + 1)

\* C1: a page whose token count is at most modelConfig.maxTokens (the
\* boundary included) gets exactly one model call, whose prompt holds the
\* instructions and the whole page content, whatever longContentConfig is.
C1_PassThrough ==
    \A r \in Requests :
        (Started(r) /\ Len(pageContent[r]) <= modelConfig.maxTokens)
        => /\ Len(promises[r]) = 1
           /\ promises[r][1].prompt = Prompt(input.instructions, pageContent[r])
           /\ pc[r] \in {"awaiting", "pushed", "failed"}
           /\ error[r] # "config"

\* C1 witness: a page exactly at the boundary under the skip policy whose
\* single call has been answered and recorded.
C1_Witness ==
    \E r \in Requests :
        /\ Len(pageContent[r]) = modelConfig.maxTokens
        /\ input.longContentConfig = "skip"
        /\ pc[r] = "pushed"
        /\ Len(promises[r]) = 1

\* C2: an oversized page under the skip policy launches no model call and
\* pushes no record.
C2_SkipNoCallNoRecord ==
    \A r \in Requests :
        (Oversized(r) /\ input.longContentConfig = "skip")
        => /\ promises[r] = <<>>
           /\ RecordsOf(r) = {}

\* C2 witness: an oversized page has been skipped.
C2_Witness ==
    \E r \in Requests :
        /\ Oversized(r)
        /\ input.longContentConfig = "skip"
        /\ pc[r] = "skipped"

\* C3: an oversized page whose policy is unset or outside the enumeration
\* ends in the configuration error, not in a skip, with no model call and no
\* record.
C3_UnsupportedIsConfigError ==
    \A r \in Requests :
        (Oversized(r) /\ input.longContentConfig \notin {"skip", "truncate", "split"})
        => /\ pc[r] = "failed"
           /\ error[r] = "config"
           /\ promises[r] = <<>>
           /\ RecordsOf(r) = {}

\* C3 witness: an oversized page with no policy configured has failed.
C3_Witness ==
    \E r \in Requests :
        /\ Oversized(r)
        /\ input.longContentConfig = "unset"
        /\ pc[r] = "failed"

\* C4: on the split path, once all chunk calls have succeeded, the recorded
\* answer is the answers of calls 1..N joined with newlines in that order,
\* whatever the order in which the calls completed.
C4_MergeInChunkOrder ==
    \A r \in Requests :
        (OnSplit(r) /\ AllFulfilled(r))
        => /\ pc[r] = "pushed"
           /\ \A i \in RecordsOf(r) : dataset[i].answer = JoinFrom(r, 1)
           /\ answer[r] = JoinFrom(r, 1)

\* C4 witness: a three-chunk split whose calls completed last chunk first,
\* with answers that tell the chunks apart, has been recorded.
C4_Witness ==
    \E r \in Requests :
        /\ OnSplit(r)
        /\ Len(promises[r]) = 3
        /\ arrival[r] = <<3, 2, 1>>
        /\ promises[r][1].answer # promises[r][3].answer
        /\ RecordsOf(r) # {}

\* C5: on the split path, as soon as one chunk call has failed the handler
\* has ended in an error and no record is pushed for the page, whatever the
\* other calls did and in whatever order.
C5_OneFailureFailsPage ==
    \A r \in Requests :
        (OnSplit(r) /\ \E k \in 1..Len(promises[r]) : promises[r][k].state = "rejected")
        => /\ pc[r] = "failed"
           /\ error[r] = "openai"
           /\ RecordsOf(r) = {}
           /\ answer[r] = <<>>

\* C5 witness: a three-chunk split in which two calls succeeded, one before
\* and one after the failure of the third.
C5_Witness ==
    \E r \in Requests :
        /\ OnSplit(r)
        /\ Len(promises[r]) = 3
        /\ arrival[r] = <<1, 2, 3>>
        /\ promises[r][1].state = "fulfilled"
        /\ promises[r][2].state = "rejected"
        /\ promises[r][3].state = "fulfilled"

\* C6: on the split path, once all chunk calls have succeeded, the recorded
\* total token usage is the sum of the usages of the N calls, each once,
\* whatever the order in which they completed.
C6_UsageIsSum ==
    \A r \in Requests :
        (OnSplit(r) /\ AllFulfilled(r))
        => /\ RecordsOf(r) # {}
           /\ \A i \in RecordsOf(r) : dataset[i].totalTokenLength = UsageFrom(r, 1)
           /\ openaiUsage[r] = UsageFrom(r, 1)

\* C6 witness: a recorded three-chunk split whose calls completed out of
\* order and reported different usages.
C6_Witness ==
    \E r \in Requests :
        /\ OnSplit(r)
        /\ Len(promises[r]) = 3
        /\ arrival[r] = <<2, 3, 1>>
        /\ promises[r][1].usage # promises[r][3].usage
        /\ RecordsOf(r) # {}

\* C7: an oversized page under the truncate policy gets exactly one model
\* call; its prompt holds the truncation of the page content to the computed
\* budget and never the whole content; when the call succeeds exactly one
\* record is pushed, and none otherwise.
C7_TruncateOneCall ==
    \A r \in Requests :
        OnTruncate(r)
        => /\ Len(promises[r]) = 1
           /\ promises[r][1].prompt.content
                = shortsTextByTokenLength(pageContent[r], contentMaxTokens[r])
           /\ promises[r][1].prompt.content # pageContent[r]
           /\ promises[r][1].state = "fulfilled" => Cardinality(RecordsOf(r)) = 1
           /\ promises[r][1].state # "fulfilled" => RecordsOf(r) = {}

\* C7 witness: a truncated page whose prompt kept some but not all of the
\* content, answered and recorded.
C7_Witness ==
    \E r \in Requests :
        /\ OnTruncate(r)
        /\ Len(promises[r]) = 1
        /\ Len(promises[r][1].prompt.content) > 0
        /\ pc[r] = "pushed"

\* C8 (as claimed): on the truncate and split paths a negative budget ends
\* the handler in the configuration error with no model call.
C8_NegativeBudgetIsConfigError ==
    \A r \in Requests :
        ((OnTruncate(r) \/ OnSplit(r))
         /\ 10 * Len(input.instructions) > 9 * modelConfig.maxTokens)
        => /\ pc[r] = "failed"
           /\ error[r] = "config"
           /\ promises[r] = <<>>

\* C9 (as claimed): on the truncate and split paths the budget handed to the
\* chunker is the whole number (9 * maxTokens) div 10 - instructionTokens.
C9_BudgetIsFloored ==
    \A r \in Requests :
        (OnTruncate(r) \/ OnSplit(r))
        => contentMaxTokens[r]
             = 10 * (((9 * modelConfig.maxTokens) \div 10) - Len(input.instructions))

\* C9 (amended): on the truncate and split paths the budget handed to the
\* chunker is 0.9 * maxTokens - instructionTokens without rounding (in
\* tenths: 9 * maxTokens - 10 * instructionTokens); only its whole part is
\* (9 * maxTokens) div 10 - instructionTokens.
C9_BudgetIsUnrounded ==
    \A r \in Requests :
        (OnTruncate(r) \/ OnSplit(r))
        => /\ contentMaxTokens[r]
                = (9 * modelConfig.maxTokens) - (10 * Len(input.instructions))
           /\ WholeTokens(contentMaxTokens[r])
                = ((9 * modelConfig.maxTokens) \div 10) - Len(input.instructions)

\* C9 witness: a split page for which 9 * maxTokens is not a multiple of 10
\* and the instructions are not empty.
C9_Witness ==
    \E r \in Requests :
        /\ OnSplit(r)
        /\ (9 * modelConfig.maxTokens) % 10 # 0
        /\ Len(input.instructions) > 0
        /\ Len(promises[r]) > 1

\* C10 (as claimed): the content field of every record is the adapted
\* content that was sent to the model (the chunks taken together on the
\* split path).
C10_RecordHoldsSentContent ==
    \A i \in 1..Len(dataset) : dataset[i].content = SentFrom(dataset[i].url, 1)

\* C10 (amended): the content field of every record is the whole converted
\* page content on every path; on the truncate path it is therefore not the
\* text that was sent to the model.
C10_RecordHoldsPageContent ==
    \A i \in 1..Len(dataset) :
        /\ dataset[i].content = pageContent[dataset[i].url]
        /\ OnTruncate(dataset[i].url)
             => dataset[i].content # promises[dataset[i].url][1].prompt.content

\* C10 witness: the record of a truncated page.
C10_Witness ==
    \E i \in 1..Len(dataset) :
        /\ OnTruncate(dataset[i].url)
        /\ Len(promises[dataset[i].url][1].prompt.content) > 0
\* C11: when the handlers of several pages run interleaved, the total token
\* usage in each page's record is the sum of the usages of that page's own
\* model calls; nothing of another page is added.
C11_UsagePerPage ==
    \A i \in 1..Len(dataset) :
        /\ dataset[i].totalTokenLength = UsageFrom(dataset[i].url, 1)
        /\ openaiUsage[dataset[i].url] = UsageFrom(dataset[i].url, 1)

\* C11 witness: request 2 was enqueued by the handler of request 1 and
\* pushed its record while that handler was still waiting; both records are
\* in, with different totals.
C11_Witness ==
    /\ Len(dataset) = 2
    /\ dataset[1].url = 2
    /\ dataset[2].url = 1
    /\ 2 \in enqueued[1]
    /\ dataset[1].totalTokenLength > 0
    /\ dataset[1].totalTokenLength # dataset[2].totalTokenLength

\* The branch the conditions of the handler select for r.
BranchOf(r) ==
    IF Len(pageContent[r]) <= modelConfig.maxTokens THEN "passThrough"
    ELSE IF input.longContentConfig \in {"skip", "truncate", "split"}
         THEN input.longContentConfig
         ELSE "unsupported"

\* The chunks the chunker returns for the page of r.
ChunksOf(r) == chunkTextByTokenLenght(pageContent[r], contentMaxTokens[r])

\* C12: the number of model invocations of one handler execution is fixed by
\* the branch taken and stays so through failures: none on skip and on the
\* configuration error, one on pass-through and truncate, and on split one
\* per chunk, chunk k being the content of invocation k and of no other.
C12_CallsFixedByStrategy ==
    \A r \in Requests :
        Started(r)
        => /\ BranchOf(r) \in {"skip", "unsupported"} => Len(promises[r]) = 0
           /\ BranchOf(r) \in {"passThrough", "truncate"} => Len(promises[r]) = 1
           /\ BranchOf(r) = "split"
                => /\ Len(promises[r]) = Len(ChunksOf(r))
                   /\ \A k \in 1..Len(promises[r]) :
                        promises[r][k].prompt.content = ChunksOf(r)[k]
                   /\ \A j, k \in 1..Len(promises[r]) :
                        promises[r][j].prompt.content = promises[r][k].prompt.content
                        => j = k

\* C12 witness: a three-chunk split in which the first call failed and the
\* others have settled; three invocations exist.
C12_Witness ==
    \E r \in Requests :
        /\ OnSplit(r)
        /\ Len(promises[r]) = 3
        /\ arrival[r] = <<1, 3, 2>>
        /\ promises[r][1].state = "rejected"
        /\ promises[r][2].state = "rejected"

\* C13: on the split path all N invocations are launched in the handler's
\* first step, before it waits on any: right after that step all N are in
\* flight, and no invocation is launched later.
C13_AllLaunchedBeforeWaiting ==
    [][\A r \in Requests :
         /\ (pc[r] = "queued" /\ OnSplit(r)')
              => /\ Len(promises'[r]) = Len(ChunksOf(r)')
                 /\ \A k \in 1..Len(promises'[r]) : promises'[r][k].state = "pending"
                 /\ pc'[r] = "awaiting"
         /\ Started(r) => Len(promises'[r]) = Len(promises[r])]_vars

\* C13 witness: three chunk calls in flight at once.
C13_Witness ==
    \E r \in Requests :
        /\ OnSplit(r)
        /\ Len(promises[r]) = 3
        /\ \A k \in 1..3 : promises[r][k].state = "pending"
        /\ pc[r] = "awaiting"

\* C14: on the split path the handler succeeds only once every call has
\* succeeded, has failed as soon as one call has failed even while others are
\* in flight, and once failed stays failed: later completions change neither
\* its outcome nor the dataset.
C14_JoinAllOrFailFast ==
    [][\A r \in Requests :
         /\ OnSplit(r)'
              => /\ pc'[r] = "pushed" => AllFulfilled(r)'
                 /\ (\E k \in 1..Len(promises'[r]) : promises'[r][k].state = "rejected")
                      => pc'[r] = "failed"
         /\ pc[r] = "failed"
              => /\ pc'[r] = "failed"
                 /\ error'[r] = error[r]
                 /\ answer'[r] = answer[r]
                 /\ openaiUsage'[r] = openaiUsage[r]
                 /\ RecordsOf(r)' = {}]_vars

\* C14 witness: the handler has failed on the second call while the third is
\* still in flight, and the first completed after the failure.
C14_Witness ==
    \E r \in Requests :
        /\ OnSplit(r)
        /\ Len(promises[r]) = 3
        /\ arrival[r] = <<2, 1>>
        /\ promises[r][2].state = "rejected"
        /\ promises[r][1].state = "fulfilled"
        /\ promises[r][3].state = "pending"
        /\ pc[r] = "failed"
        /\ RecordsOf(r) = {}

Terminal(r) == pc[r] \in {"pushed", "skipped", "failed"}

\* C15 (as claimed): at every terminal state of a page, the failed state of a
\* split included, the usage total is the sum of the usages of all call
\* results produced for the page.
C15_UsageIsSumAtEveryEnd ==
    \A r \in Requests : Terminal(r) => openaiUsage[r] = UsageFrom(r, 1)

\* C15 (amended): when the page ends with a record, the usage total is the
\* sum of the usages of all its call results, each once; when it ends skipped
\* or failed nothing has been logged and the total is zero, whatever usage
\* calls that succeeded had reported.
C15_UsageIsSumWhenPushed ==
    \A r \in Requests :
        /\ pc[r] = "pushed" => openaiUsage[r] = UsageFrom(r, 1)
        /\ pc[r] \in {"skipped", "failed"} => openaiUsage[r] = 0

\* C15 witness: a failed split one of whose calls had succeeded and reported
\* usage.
C15_Witness ==
    \E r \in Requests :
        /\ OnSplit(r)
        /\ pc[r] = "failed"
        /\ UsageFrom(r, 1) > 0
        /\ openaiUsage[r] = 0

\* The outcome of r agrees with the dataset, the error and the branch taken.
OneOutcome(r) ==
    /\ pc[r] = "pushed"
         => Cardinality(RecordsOf(r)) = 1 /\ error[r] = "none"
    /\ pc[r] = "skipped"
         => RecordsOf(r) = {} /\ error[r] = "none" /\ strategy[r] = "skip"
    /\ pc[r] = "failed"
         => RecordsOf(r) = {} /\ error[r] # "none"
    /\ ~Terminal(r) => RecordsOf(r) = {} /\ error[r] = "none"
    /\ Started(r) => strategy[r] = BranchOf(r)
    /\ strategy[r] = "skip" => pc[r] = "skipped"
    /\ strategy[r] = "unsupported" => pc[r] = "failed" /\ error[r] = "config"

\* C16: provided every launched call eventually succeeds or fails, every
\* handler execution reaches one of the outcomes record pushed, skipped,
\* failed; the outcomes exclude one another, the outcome reached is kept, and
\* exactly one branch is taken per page.
C16_OneTerminalOutcome ==
    /\ \A r \in Requests : (pc[r] = "queued") ~> Terminal(r)
    /\ [](\A r \in Requests : OneOutcome(r))
    /\ [][\A r \in Requests : Terminal(r) => pc'[r] = pc[r]]_vars

\* C16 witness: a pass-through page whose single call failed has ended in
\* the failed outcome.
C16_Witness ==
    \E r \in Requests :
        /\ Started(r)
        /\ BranchOf(r) = "passThrough"
        /\ pc[r] = "failed"
        /\ error[r] = "openai"

\* C17: a skip is told apart from every failure: an oversized page under the
\* skip policy ends normally with no error, an unsupported policy and a
\* failed model call end with an error, and no execution is both.
C17_SkipIsNotFailure ==
    \A r \in Requests :
        /\ (Oversized(r) /\ input.longContentConfig = "skip")
             => pc[r] = "skipped" /\ error[r] = "none"
        /\ (Oversized(r) /\ input.longContentConfig \notin {"skip", "truncate", "split"})
             => pc[r] = "failed" /\ error[r] = "config"
        /\ (\E k \in 1..Len(promises[r]) : promises[r][k].state = "rejected")
             => pc[r] = "failed" /\ error[r] = "openai"
        /\ pc[r] = "skipped"
             => Oversized(r) /\ input.longContentConfig = "skip" /\ error[r] = "none"
        /\ error[r] # "none" => pc[r] = "failed"

\* C17 witness: a page one token over the limit, skipped without error.
C17_Witness ==
    \E r \in Requests :
        /\ Len(pageContent[r]) = modelConfig.maxTokens + 1
        /\ input.longContentConfig = "skip"
        /\ pc[r] = "skipped"
        /\ error[r] = "none"

\* C18 (as claimed): in every model call, when the chunker kept within the
\* budget it was given, the instruction tokens plus the tokens of the content
\* in the prompt do not exceed modelConfig.maxTokens.
C18_PromptFitsContext ==
    \A r \in Requests :
        \A k \in 1..Len(promises[r]) :
            (strategy[r] \in {"truncate", "split"}
               => 10 * Len(promises[r][k].prompt.content) <= contentMaxTokens[r])
            => Len(promises[r][k].prompt.instructions)
                 + Len(promises[r][k].prompt.content) <= modelConfig.maxTokens

\* C19 (as claimed): with maxCrawlingDepth D > 0 and link following
\* configured, links are enqueued only from pages of depth below D, no
\* request deeper than D is ever enqueued, and a page of depth below D does
\* enqueue its links (as far as request slots are left).
C19_DepthLimit ==
    (input.maxCrawlingDepth > 0 /\ input.linkSelector /\ input.globs)
    => /\ \A q \in Requests : pc[q] # "none" => depth[q] <= input.maxCrawlingDepth
       /\ \A r \in Requests :
            /\ enqueued[r] # {} => depth[r] < input.maxCrawlingDepth
            /\ (Started(r) /\ depth[r] < input.maxCrawlingDepth
                /\ linksFound[r] > 0 /\ enqueued[r] = {})
                 => FreeSlots = {}
====
